---- MODULE Spec2Model ----
(***************************************************************************)
(* Model of the sequential extension installer of godot-launcher:          *)
(*   install_extensions_logic (src/project_handler.py) drives one          *)
(*   ExtensionInstaller thread at a time from the GUI thread; each         *)
(*   installer owns one DownloadThread (src/utils.py).                     *)
(*                                                                         *)
(* Threads.  The GUI thread runs the closures of install_extensions_logic  *)
(* as handlers of queued signal events (guiQueue, FIFO).  Every            *)
(* ExtensionInstaller object is created on the GUI thread, so the signals  *)
(* its run() emits from the worker thread are queued to the GUI thread.    *)
(* The DownloadThread object is created inside ExtensionInstaller.run(),   *)
(* so it belongs to the installer's thread: a signal it emits from its own *)
(* run() towards a plain function (store_dl_error) is queued to the        *)
(* installer's thread, which runs no event loop (run() never calls exec);  *)
(* such events stay in inst_events.  Its progress signal is connected to   *)
(* a method of the installer object and is therefore queued to the GUI     *)
(* thread.                                                                 *)
(***************************************************************************)
EXTENDS Integers, Sequences, FiniteSets, TLC

\* ---------------------------------------------------------------- bounds
MaxAssets == 2        \* longest asset_ids list
MaxAssetId == 2       \* asset ids are 1..MaxAssetId
MaxChunks == 2        \* most chunks a response body yields
NumProcs == 2         \* launcher processes that install at the same time
MaxWrap == 4          \* most folders and zip files wrapped around an archive's content
MaxData == 1          \* file contents of an archive are 1..MaxData, existing files hold 0
MaxProjects == 2      \* project names, and folders inside the default projects folder

AssetIdSet == 1..MaxAssetId
Jobs == 1..MaxAssets
Procs == 1..NumProcs

RECURSIVE SeqsUpTo(_, _)
SeqsUpTo(S, n) ==
  IF n = 0 THEN {<<>>}
  ELSE LET shorter == SeqsUpTo(S, n - 1)
       IN  shorter \cup {Append(s, x) : s \in {t \in shorter : Len(t) = n - 1}, x \in S}

\* ---------------------------------------------------------------- values
NoneStr == "None"
NoError == [id |-> 0, kind |-> NoneStr, detail |-> NoneStr]
NoMsg == [kind |-> NoneStr, detail |-> NoneStr]
Msg(k, d) == [kind |-> k, detail |-> d]
NoStop == [pc |-> NoneStr, dl |-> NoneStr, bytes |-> 0]
NoEvt == [t |-> NoneStr, job |-> 0, ok |-> FALSE, msg |-> NoMsg, pct |-> 0]
Evt(t, j, ok, m, p) == [t |-> t, job |-> j, ok |-> ok, msg |-> m, pct |-> p]

VARIABLES
  \* --- install_extensions_logic (GUI thread)
  asset_ids,          \* the list passed in
  ids_to_install,     \* work list
  installed_count,
  first_error_msg,
  cancelled,          \* state["cancelled"]
  current_installer,  \* state["current_installer"]: job number, 0 = None
  asset_id,           \* local of run_next_installer while it processes events
  gui_pc,             \* "start" | "processEvents" | "idle"
  guiQueue,           \* queued signal events of the GUI thread
  njobs,              \* installers constructed so far
  job_id,             \* asset id given to each installer
  callbacks,          \* invocations of finished_callback
  handled,            \* results seen by handle_installer_finished
  lastEvt,            \* last event dispatched on the GUI thread
  bar,                \* last value given to progress_bar.setValue
  \* --- ExtensionInstaller (one per job)
  inst_pc,
  is_running,         \* ExtensionInstaller._is_running
  download_thread,    \* self.download_thread is not None
  final_dl_error,     \* local of run(), written by store_dl_error
  inst_events,        \* events queued to the installer thread
  success,            \* local of run()
  error_message,      \* local of run()
  finished_emits,     \* finished.emit calls of the job
  meta,               \* what fetch_asset_details_sync returned
  extract_ret,        \* what extract_zip returned ("None": not called)
  stop_point,         \* where the job and its transfer stood when stop() was called
  \* --- DownloadThread (one per job)
  dl_pc,
  dl_is_running,      \* DownloadThread._is_running
  dl_error,           \* error_message of DownloadThread.run
  dl_total,           \* total_size in chunks, 0 = unknown
  dl_left,            \* chunks the response still yields
  dl_bytes,           \* bytes_downloaded in chunks
  \* --- file system
  zip_exists,         \* temp_dir/asset_<id>.zip exists, per asset id
  temp_dir_exists,
  project_ok,         \* project_path/addons can be created
  \* --- installers of several launcher processes, one each
  pr_pc,              \* where each process's installer stands
  pr_asset,           \* its asset_id
  pr_path,            \* its zip_save_path
  pr_file,            \* the process whose download each temp path holds, 0 = no file
  pr_read,            \* the process whose download its extraction read
  \* --- one call of extract_zip
  ex_pc,
  ex_archive,         \* the tree stored in the archive at zip_path
  ex_dest0,           \* destination_dir before the call
  ex_dest,            \* destination_dir
  ex_ret,             \* the value returned
  ex_copied,          \* the addons directories whose contents were copied
  ex_scratch,         \* the scratch directories of the call that are on disk
  ex_made,            \* how many scratch directories the call has created
  \* --- one call of synchronize_projects_with_default_folder
  sy_pc,
  sy_folder,          \* the default projects folder: "unset", "notdir" or "valid"
  sy_disk,            \* the project name found at each folder inside it, 0 for none
  sy_scanned,         \* what scan_projects_folder returned
  sy_stored0,         \* the stored project list before the call
  sy_stored,          \* the stored project list (DataManager)
  sy_ret              \* the value returned

guiVars == <<asset_ids, ids_to_install, installed_count, first_error_msg, cancelled,
             current_installer, asset_id, gui_pc, guiQueue, njobs, job_id, callbacks,
             handled, lastEvt, bar>>
instVars == <<inst_pc, is_running, download_thread, final_dl_error, inst_events,
              success, error_message, finished_emits, meta, extract_ret, stop_point>>
dlVars == <<dl_pc, dl_is_running, dl_error, dl_total, dl_left, dl_bytes>>
fsVars == <<zip_exists, temp_dir_exists, project_ok>>
procVars == <<pr_pc, pr_asset, pr_path, pr_file, pr_read>>
exVars == <<ex_pc, ex_archive, ex_dest0, ex_dest, ex_ret, ex_copied, ex_scratch, ex_made>>
syVars == <<sy_pc, sy_folder, sy_disk, sy_scanned, sy_stored0, sy_stored, sy_ret>>
auxVars == <<procVars, exVars, syVars>>
queueVars == <<guiVars, instVars, dlVars, fsVars>>
vars == <<queueVars, auxVars>>

\* ------------------------------------------------------------ GUI thread
\* run_next_installer, lines 711-725: the final summary
FinalSummary(fe, c) ==
  LET ok == (fe = NoError) /\ ~c
  IN  [success |-> ok,
       kind |-> IF c THEN "Installation cancelled."
                ELSE IF ok THEN "Installation complete."
                ELSE "Installation finished with errors",
       err |-> IF ~c /\ ~ok THEN fe ELSE NoError]

\* base_progress = int(100 * installed_count / total), line 729
BaseProgress(count, total) == (100 * count) \div total

\* the triples (installed_count, total, percent) of the modelled range for
\* which the float expression of line 753 truncates to one less than the
\* exact quotient
FloatShort == {<<2, 4, 260>>}

\* overall_progress = int(100 * (installed_count + percent / 100.0) / total),
\* lines 752-753
OverallProgress(count, percent, total) ==
  LET q == (100 * count + percent) \div total
  IN  IF <<count, total, percent>> \in FloatShort THEN q - 1 ELSE q

\* total_progress = 20 + int(percent * 0.6) if percent >= 0 else -1, line 647
TotalProgress(percent) ==
  IF percent >= 0 THEN 20 + (percent * 6) \div 10 ELSE -1

\* run_next_installer that takes the last id of the work list
RunNextInstaller_lifo ==
  IF cancelled \/ ids_to_install = <<>>
  THEN /\ callbacks' = Append(callbacks, FinalSummary(first_error_msg', cancelled))
       /\ current_installer' = 0
       /\ gui_pc' = "idle"
       /\ UNCHANGED <<ids_to_install, asset_id, bar>>
  ELSE /\ asset_id' = ids_to_install[Len(ids_to_install)]
       /\ ids_to_install' = SubSeq(ids_to_install, 1, Len(ids_to_install) - 1)
       /\ bar' = BaseProgress(installed_count', Len(asset_ids))
       /\ gui_pc' = "processEvents"
       /\ UNCHANGED <<callbacks, current_installer>>

\* run_next_installer up to QApplication.processEvents(), lines 707-735
RunNextInstaller ==
  IF cancelled \/ ids_to_install = <<>>
  THEN /\ callbacks' = Append(callbacks, FinalSummary(first_error_msg', cancelled))
       /\ current_installer' = 0
       /\ gui_pc' = "idle"
       /\ UNCHANGED <<ids_to_install, asset_id, bar>>
  ELSE /\ asset_id' = Head(ids_to_install)
       /\ ids_to_install' = Tail(ids_to_install)
       /\ bar' = BaseProgress(installed_count', Len(asset_ids))
       /\ gui_pc' = "processEvents"
       /\ UNCHANGED <<callbacks, current_installer>>

\* the arguments of install_extensions_logic and the state it is called in
QueueInit ==
  /\ asset_ids \in SeqsUpTo(AssetIdSet, MaxAssets)
  /\ ids_to_install = asset_ids
  /\ installed_count = 0
  /\ first_error_msg = NoError
  /\ cancelled = FALSE
  /\ current_installer = 0
  /\ asset_id = 0
  /\ gui_pc = "start"
  /\ guiQueue = <<>>
  /\ njobs = 0
  /\ job_id = [k \in Jobs |-> 0]
  /\ callbacks = <<>>
  /\ handled = <<>>
  /\ lastEvt = NoEvt
  /\ bar = 0
  /\ inst_pc = [k \in Jobs |-> "none"]
  /\ is_running = [k \in Jobs |-> FALSE]
  /\ download_thread = [k \in Jobs |-> FALSE]
  /\ final_dl_error = [k \in Jobs |-> NoneStr]
  /\ inst_events = [k \in Jobs |-> <<>>]
  /\ success = [k \in Jobs |-> FALSE]
  /\ error_message = [k \in Jobs |-> NoMsg]
  /\ finished_emits = [k \in Jobs |-> 0]
  /\ meta = [k \in Jobs |-> NoneStr]
  /\ extract_ret = [k \in Jobs |-> NoneStr]
  /\ stop_point = [k \in Jobs |-> NoStop]
  /\ dl_pc = [k \in Jobs |-> "none"]
  /\ dl_is_running = [k \in Jobs |-> FALSE]
  /\ dl_error = [k \in Jobs |-> NoneStr]
  /\ dl_total = [k \in Jobs |-> 0]
  /\ dl_left = [k \in Jobs |-> 0]
  /\ dl_bytes = [k \in Jobs |-> 0]
  /\ zip_exists = [a \in AssetIdSet |-> FALSE]
  /\ temp_dir_exists \in BOOLEAN
  /\ project_ok \in BOOLEAN

\* no ExtensionInstaller has been constructed in any process
NoPath == [dir |-> NoneStr, name |-> 0]
ProcStart ==
  /\ pr_pc = [p \in Procs |-> "none"]
  /\ pr_asset = [p \in Procs |-> 0]
  /\ pr_path = [p \in Procs |-> NoPath]
  /\ pr_file = [a \in AssetIdSet |-> 0]
  /\ pr_read = [p \in Procs |-> -1]

\* extract_zip is not being called
ExIdle ==
  /\ ex_pc = "off"
  /\ ex_archive = {}
  /\ ex_dest0 = {}
  /\ ex_dest = {}
  /\ ex_ret = NoneStr
  /\ ex_copied = {}
  /\ ex_scratch = {}
  /\ ex_made = 0

\* no synchronization is run
SyIdle ==
  /\ sy_pc = "off"
  /\ sy_folder = "unset"
  /\ sy_disk = [p \in 1..MaxProjects |-> 0]
  /\ sy_scanned = {}
  /\ sy_stored0 = {}
  /\ sy_stored = {}
  /\ sy_ret = NoneStr

Init == QueueInit /\ ProcStart /\ ExIdle /\ SyIdle

\* install_extensions_logic that returns None for an empty list without
\* calling finished_callback
StartQueue_emptySilent ==
  /\ gui_pc = "start"
  /\ UNCHANGED <<first_error_msg, installed_count>>
  /\ IF asset_ids = <<>>
     THEN /\ gui_pc' = "idle"
          /\ UNCHANGED <<callbacks, ids_to_install, current_installer, asset_id, bar>>
     ELSE RunNextInstaller
  /\ UNCHANGED <<asset_ids, cancelled, guiQueue, njobs, job_id,
                 handled, lastEvt>>
  /\ UNCHANGED <<instVars, dlVars, fsVars, auxVars>>

\* the call of install_extensions_logic: the empty list, lines 680-685,
\* otherwise lines 687-704 and the first run_next_installer, line 798
StartQueue ==
  /\ gui_pc = "start"
  /\ UNCHANGED <<first_error_msg, installed_count>>
  /\ IF asset_ids = <<>>
     THEN /\ callbacks' = <<[success |-> TRUE, kind |-> "No extensions selected.",
                             err |-> NoError]>>
          /\ gui_pc' = "idle"
          /\ UNCHANGED <<ids_to_install, current_installer, asset_id, bar>>
     ELSE RunNextInstaller
  /\ UNCHANGED <<asset_ids, cancelled, guiQueue, njobs, job_id,
                 handled, lastEvt>>
  /\ UNCHANGED <<instVars, dlVars, fsVars, auxVars>>

\* StartInstaller that goes on to the next id without waiting for the result
StartInstaller_noWait ==
  /\ gui_pc = "processEvents"
  /\ LET k == njobs + 1
     IN  /\ njobs' = k
         /\ job_id' = [job_id EXCEPT ![k] = asset_id]
         /\ current_installer' = k
         /\ inst_pc' = [inst_pc EXCEPT ![k] = "started"]
         /\ is_running' = [is_running EXCEPT ![k] = TRUE]
  /\ IF ids_to_install = <<>>
     THEN /\ gui_pc' = "idle"
          /\ asset_id' = 0
          /\ UNCHANGED ids_to_install
     ELSE /\ gui_pc' = "processEvents"
          /\ asset_id' = Head(ids_to_install)
          /\ ids_to_install' = Tail(ids_to_install)
  /\ UNCHANGED <<asset_ids, installed_count, first_error_msg, cancelled,
                 guiQueue, callbacks, handled, lastEvt, bar>>
  /\ UNCHANGED <<download_thread, final_dl_error, inst_events, success, error_message,
                 finished_emits, meta, extract_ret, stop_point>>
  /\ UNCHANGED <<dlVars, fsVars, auxVars>>

\* run_next_installer after processEvents, lines 737-781 (and the return at 799)
StartInstaller ==
  /\ gui_pc = "processEvents"
  /\ LET k == njobs + 1
     IN  /\ njobs' = k
         /\ job_id' = [job_id EXCEPT ![k] = asset_id]
         /\ current_installer' = k
         /\ inst_pc' = [inst_pc EXCEPT ![k] = "started"]
         /\ is_running' = [is_running EXCEPT ![k] = TRUE]
  /\ gui_pc' = "idle"
  /\ asset_id' = 0
  /\ UNCHANGED <<asset_ids, ids_to_install, installed_count, first_error_msg, cancelled,
                 guiQueue, callbacks, handled, lastEvt, bar>>
  /\ UNCHANGED <<download_thread, final_dl_error, inst_events, success, error_message,
                 finished_emits, meta, extract_ret, stop_point>>
  /\ UNCHANGED <<dlVars, fsVars, auxVars>>

\* QThread.isRunning of an installer: from start() until its thread ends
InstallerIsRunning(k) == inst_pc[k] \notin {"none", "dead", "crashed"}

\* QThread.isRunning of a DownloadThread
DownloadIsRunning(k) == dl_pc[k] \in {"started", "loop"}

\* handle_installer_finished that counts only the successful results
HandleInstallerFinished_successOnly(e) ==
  /\ handled' = Append(handled, [job |-> e.job, id |-> job_id[e.job], success |-> e.ok,
                                 cancelled |-> cancelled])
  /\ IF cancelled
     THEN UNCHANGED <<installed_count, first_error_msg>>
     ELSE /\ installed_count' = IF e.ok THEN installed_count + 1 ELSE installed_count
          /\ first_error_msg' =
               IF ~e.ok /\ first_error_msg = NoError
               THEN [id |-> job_id[e.job], kind |-> e.msg.kind, detail |-> e.msg.detail]
               ELSE first_error_msg
  /\ RunNextInstaller

\* handle_installer_finished that counts a result also after a cancel
HandleInstallerFinished_countsAfterCancel(e) ==
  /\ handled' = Append(handled, [job |-> e.job, id |-> job_id[e.job], success |-> e.ok,
                                 cancelled |-> cancelled])
  /\ installed_count' = installed_count + 1
  /\ first_error_msg' =
       IF ~cancelled /\ ~e.ok /\ first_error_msg = NoError
       THEN [id |-> job_id[e.job], kind |-> e.msg.kind, detail |-> e.msg.detail]
       ELSE first_error_msg
  /\ RunNextInstaller

\* handle_installer_finished, lines 758-775
HandleInstallerFinished(e) ==
  /\ handled' = Append(handled, [job |-> e.job, id |-> job_id[e.job], success |-> e.ok,
                                 cancelled |-> cancelled])
  /\ IF cancelled
     THEN UNCHANGED <<installed_count, first_error_msg>>
     ELSE /\ installed_count' = installed_count + 1
          /\ first_error_msg' =
               IF ~e.ok /\ first_error_msg = NoError
               THEN [id |-> job_id[e.job], kind |-> e.msg.kind, detail |-> e.msg.detail]
               ELSE first_error_msg
  /\ RunNextInstaller

\* handle_progress_update, lines 746-756
HandleProgressUpdate(percent) ==
  bar' = IF ~cancelled /\ percent >= 0
         THEN OverallProgress(installed_count, percent, Len(asset_ids))
         ELSE bar

\* ExtensionInstaller._handle_download_progress, lines 643-648; the
\* re-emitted progress is delivered at once, both objects live in the GUI
\* thread
HandleDownloadProgress(e) ==
  IF is_running[e.job]
  THEN HandleProgressUpdate(TotalProgress(e.pct))
  ELSE UNCHANGED bar

\* the GUI event loop delivers the oldest queued signal to its handler:
\* handle_installer_finished (758), handle_progress_update (746),
\* handle_status_update (742), ExtensionInstaller._handle_download_progress (643)
GuiDispatch ==
  /\ gui_pc = "idle"
  /\ guiQueue # <<>>
  /\ LET e == Head(guiQueue)
     IN  /\ guiQueue' = Tail(guiQueue)
         /\ lastEvt' = e
         /\ IF e.t = "finished"
            THEN HandleInstallerFinished(e)
            ELSE /\ IF e.t = "progress" THEN HandleProgressUpdate(e.pct)
                    ELSE IF e.t = "dlprogress" THEN HandleDownloadProgress(e)
                    ELSE UNCHANGED bar
                 /\ UNCHANGED <<ids_to_install, installed_count, first_error_msg,
                                current_installer, asset_id, gui_pc, callbacks, handled>>
  /\ UNCHANGED <<asset_ids, cancelled, njobs, job_id>>
  /\ UNCHANGED <<instVars, dlVars, fsVars, auxVars>>

\* ExtensionInstaller.stop, lines 504-509, and DownloadThread.stop, lines 163-166
Stop(k) ==
  /\ is_running' = [is_running EXCEPT ![k] = FALSE]
  /\ stop_point' = [stop_point EXCEPT
                      ![k] = [pc |-> inst_pc[k], dl |-> dl_pc[k], bytes |-> dl_bytes[k]]]
  /\ IF download_thread[k] /\ DownloadIsRunning(k)
     THEN dl_is_running' = [dl_is_running EXCEPT ![k] = FALSE]
     ELSE UNCHANGED dl_is_running

\* Cancel that finalizes on the spot instead of leaving it to run_next_installer
Cancel_finalizes ==
  /\ njobs > 0
  /\ gui_pc \in {"idle", "processEvents"}
  /\ IF cancelled
     THEN UNCHANGED <<cancelled, is_running, dl_is_running, stop_point, callbacks>>
     ELSE /\ cancelled' = TRUE
          /\ callbacks' = Append(callbacks, FinalSummary(first_error_msg, TRUE))
          /\ IF current_installer # 0 /\ InstallerIsRunning(current_installer)
             THEN Stop(current_installer)
             ELSE UNCHANGED <<is_running, dl_is_running, stop_point>>
  /\ UNCHANGED <<asset_ids, ids_to_install, installed_count, first_error_msg,
                 current_installer, asset_id, gui_pc, guiQueue, njobs, job_id,
                 handled, lastEvt, bar>>
  /\ UNCHANGED <<inst_pc, download_thread, final_dl_error, inst_events, success,
                 error_message, finished_emits, meta, extract_ret>>
  /\ UNCHANGED <<dl_pc, dl_error, dl_total, dl_left, dl_bytes>>
  /\ UNCHANGED <<fsVars, auxVars>>

\* cancel_installation_process, lines 783-795; callable once
\* install_extensions_logic has returned it (line 799)
Cancel ==
  /\ njobs > 0
  /\ gui_pc \in {"idle", "processEvents"}
  /\ IF cancelled
     THEN UNCHANGED <<cancelled, is_running, dl_is_running, stop_point>>
     ELSE /\ cancelled' = TRUE
          /\ IF current_installer # 0 /\ InstallerIsRunning(current_installer)
             THEN Stop(current_installer)
             ELSE UNCHANGED <<is_running, dl_is_running, stop_point>>
  /\ UNCHANGED <<asset_ids, ids_to_install, installed_count, first_error_msg,
                 current_installer, asset_id, gui_pc, guiQueue, njobs, job_id, callbacks,
                 handled, lastEvt, bar>>
  /\ UNCHANGED <<inst_pc, download_thread, final_dl_error, inst_events, success,
                 error_message, finished_emits, meta, extract_ret>>
  /\ UNCHANGED <<dl_pc, dl_error, dl_total, dl_left, dl_bytes>>
  /\ UNCHANGED <<fsVars, auxVars>>

\* ------------------------------------------------- ExtensionInstaller.run
InstFrame(k) ==
  /\ UNCHANGED <<asset_ids, ids_to_install, installed_count, first_error_msg, cancelled,
                 current_installer, asset_id, gui_pc, njobs, job_id, callbacks, handled,
                 lastEvt, bar>>
  /\ UNCHANGED <<is_running, final_dl_error, inst_events, stop_point>>
  /\ UNCHANGED <<dl_error, dl_total, dl_left, dl_bytes>>
  /\ UNCHANGED <<project_ok, auxVars>>

\* an exception raised inside the try block, lines 609-621
Raise(k, m) ==
  /\ error_message' = [error_message EXCEPT ![k] = m]
  /\ inst_pc' = [inst_pc EXCEPT ![k] = "finally"]

\* lines 511-531
InstRun(k) ==
  /\ inst_pc[k] = "started"
  /\ IF ~is_running[k]
     THEN /\ guiQueue' = Append(guiQueue,
                Evt("finished", k, FALSE, Msg("cancelled", "Cancelled before start."), 0))
          /\ finished_emits' = [finished_emits EXCEPT ![k] = @ + 1]
          /\ inst_pc' = [inst_pc EXCEPT ![k] = "emitted"]
     ELSE IF ~project_ok
     THEN \* addons_dir.mkdir raises outside the try block, line 521
          /\ inst_pc' = [inst_pc EXCEPT ![k] = "crashed"]
          /\ UNCHANGED <<guiQueue, finished_emits>>
     ELSE /\ guiQueue' = guiQueue \o <<Evt("status", k, FALSE, NoMsg, 0),
                                       Evt("progress", k, FALSE, NoMsg, 10)>>
          /\ inst_pc' = [inst_pc EXCEPT ![k] = "fetch"]
          /\ UNCHANGED finished_emits
  /\ InstFrame(k)
  /\ UNCHANGED <<download_thread, success, error_message, meta, extract_ret>>
  /\ UNCHANGED <<dl_pc, dl_is_running, zip_exists, temp_dir_exists>>

\* InstFetch without the check of the download URL
InstFetch_noUrlCheck(k) ==
  /\ inst_pc[k] = "fetch"
  /\ \E m \in {"NotFound", "NoUrl", "Ok"} :
       /\ meta' = [meta EXCEPT ![k] = m]
       /\ IF ~is_running[k]
          THEN /\ Raise(k, Msg("cancelled", "Cancelled after fetching details"))
               /\ UNCHANGED <<guiQueue, temp_dir_exists>>
          ELSE IF m = "NotFound"
          THEN /\ Raise(k, Msg("failed", "Details not found"))
               /\ UNCHANGED <<guiQueue, temp_dir_exists>>
          ELSE /\ guiQueue' = guiQueue \o <<Evt("progress", k, FALSE, NoMsg, 20),
                                            Evt("status", k, FALSE, NoMsg, 0)>>
               /\ \/ /\ temp_dir_exists' = TRUE
                     /\ inst_pc' = [inst_pc EXCEPT ![k] = "download"]
                     /\ UNCHANGED error_message
                  \/ /\ ~temp_dir_exists
                     /\ Raise(k, Msg("failed", "Could not create temporary directory"))
                     /\ UNCHANGED temp_dir_exists
  /\ InstFrame(k)
  /\ UNCHANGED <<download_thread, success, finished_emits, extract_ret>>
  /\ UNCHANGED <<dl_pc, dl_is_running, zip_exists>>

\* fetch_asset_details_sync returns; lines 532-553
InstFetch(k) ==
  /\ inst_pc[k] = "fetch"
  /\ \E m \in {"NotFound", "NoUrl", "Ok"} :
       /\ meta' = [meta EXCEPT ![k] = m]
       /\ IF ~is_running[k]
          THEN /\ Raise(k, Msg("cancelled", "Cancelled after fetching details"))
               /\ UNCHANGED <<guiQueue, temp_dir_exists>>
          ELSE IF m = "NotFound"
          THEN /\ Raise(k, Msg("failed", "Details not found"))
               /\ UNCHANGED <<guiQueue, temp_dir_exists>>
          ELSE IF m = "NoUrl"
          THEN /\ Raise(k, Msg("failed", "Download URL not found"))
               /\ UNCHANGED <<guiQueue, temp_dir_exists>>
          ELSE /\ guiQueue' = guiQueue \o <<Evt("progress", k, FALSE, NoMsg, 20),
                                            Evt("status", k, FALSE, NoMsg, 0)>>
               /\ \/ /\ temp_dir_exists' = TRUE
                     /\ inst_pc' = [inst_pc EXCEPT ![k] = "download"]
                     /\ UNCHANGED error_message
                  \/ /\ ~temp_dir_exists
                     /\ Raise(k, Msg("failed", "Could not create temporary directory"))
                     /\ UNCHANGED temp_dir_exists
  /\ InstFrame(k)
  /\ UNCHANGED <<download_thread, success, finished_emits, extract_ret>>
  /\ UNCHANGED <<dl_pc, dl_is_running, zip_exists>>

\* lines 555-567: create the DownloadThread (its _is_running starts True,
\* src/utils.py 156-161) and connect its signals
InstCreateDownload(k) ==
  /\ inst_pc[k] = "download"
  /\ download_thread' = [download_thread EXCEPT ![k] = TRUE]
  /\ dl_is_running' = [dl_is_running EXCEPT ![k] = TRUE]
  /\ inst_pc' = [inst_pc EXCEPT ![k] = "created"]
  /\ InstFrame(k)
  /\ UNCHANGED <<guiQueue, success, error_message, finished_emits, meta, extract_ret>>
  /\ UNCHANGED <<dl_pc, zip_exists, temp_dir_exists>>

\* lines 569-574: start the DownloadThread and wait for it
InstStartDownload(k) ==
  /\ inst_pc[k] = "created"
  /\ dl_pc' = [dl_pc EXCEPT ![k] = "started"]
  /\ inst_pc' = [inst_pc EXCEPT ![k] = "wait"]
  /\ InstFrame(k)
  /\ UNCHANGED <<guiQueue, download_thread, success, error_message, finished_emits, meta,
                 extract_ret>>
  /\ UNCHANGED <<dl_is_running, zip_exists, temp_dir_exists>>

\* wait() has returned; lines 577-591
InstAfterWait(k) ==
  /\ inst_pc[k] = "wait"
  /\ dl_pc[k] = "finished"
  /\ IF ~is_running[k]
     THEN /\ Raise(k, Msg("cancelled", IF final_dl_error[k] # NoneStr THEN final_dl_error[k]
                                       ELSE "Cancelled during download wait"))
          /\ UNCHANGED guiQueue
     ELSE IF final_dl_error[k] # NoneStr
     THEN /\ Raise(k, Msg("failed", final_dl_error[k]))
          /\ UNCHANGED guiQueue
     ELSE /\ guiQueue' = guiQueue \o <<Evt("progress", k, FALSE, NoMsg, 80),
                                       Evt("status", k, FALSE, NoMsg, 0)>>
          /\ inst_pc' = [inst_pc EXCEPT ![k] = "extract"]
          /\ UNCHANGED error_message
  /\ InstFrame(k)
  /\ UNCHANGED <<download_thread, success, finished_emits, meta, extract_ret>>
  /\ UNCHANGED <<dl_pc, dl_is_running, zip_exists, temp_dir_exists>>

\* extract_zip as ExtensionInstaller.run sees it (src/utils.py 328-336, 477-479):
\* it raises nothing and returns False when the archive is missing or
\* cannot be read or copied
ExtractZipReturns(k) ==
  IF zip_exists[job_id[k]] THEN BOOLEAN ELSE {FALSE}

\* lines 595-607
InstExtract(k) ==
  /\ inst_pc[k] = "extract"
  /\ \E r \in ExtractZipReturns(k) :
       extract_ret' = [extract_ret EXCEPT ![k] = IF r THEN "True" ELSE "False"]
  /\ IF ~is_running[k]
     THEN /\ Raise(k, Msg("cancelled", "Cancelled after extraction"))
          /\ UNCHANGED <<guiQueue, success>>
     ELSE /\ success' = [success EXCEPT ![k] = TRUE]
          /\ Raise(k, Msg("success", "installed successfully."))
          /\ guiQueue' = guiQueue \o <<Evt("progress", k, FALSE, NoMsg, 100),
                                       Evt("status", k, FALSE, NoMsg, 0)>>
  /\ InstFrame(k)
  /\ UNCHANGED <<download_thread, finished_emits, meta>>
  /\ UNCHANGED <<dl_pc, dl_is_running, zip_exists, temp_dir_exists>>

\* run() returns: its locals, the DownloadThread it owned and the events
\* still queued to its thread are released
ReleaseLocals(k) ==
  /\ success' = [success EXCEPT ![k] = FALSE]
  /\ error_message' = [error_message EXCEPT ![k] = NoMsg]
  /\ final_dl_error' = [final_dl_error EXCEPT ![k] = NoneStr]
  /\ inst_events' = [inst_events EXCEPT ![k] = <<>>]
  /\ meta' = [meta EXCEPT ![k] = NoneStr]
  /\ extract_ret' = [extract_ret EXCEPT ![k] = NoneStr]
  /\ stop_point' = [stop_point EXCEPT ![k] = NoStop]
  /\ dl_pc' = [dl_pc EXCEPT ![k] = "none"]
  /\ dl_is_running' = [dl_is_running EXCEPT ![k] = FALSE]
  /\ dl_error' = [dl_error EXCEPT ![k] = NoneStr]
  /\ dl_total' = [dl_total EXCEPT ![k] = 0]
  /\ dl_left' = [dl_left EXCEPT ![k] = 0]
  /\ dl_bytes' = [dl_bytes EXCEPT ![k] = 0]

\* InstFinally that leaves the downloaded archive in the temp directory
InstFinally_keepsZip(k) ==
  /\ inst_pc[k] = "finally"
  /\ download_thread' = [download_thread EXCEPT ![k] = FALSE]
  /\ UNCHANGED <<zip_exists, temp_dir_exists>>
  /\ guiQueue' = Append(guiQueue, Evt("finished", k, success[k], error_message[k], 0))
  /\ finished_emits' = [finished_emits EXCEPT ![k] = @ + 1]
  /\ inst_pc' = [inst_pc EXCEPT ![k] = "emitted"]
  /\ ReleaseLocals(k)
  /\ UNCHANGED <<asset_ids, ids_to_install, installed_count, first_error_msg, cancelled,
                 current_installer, asset_id, gui_pc, njobs, job_id, callbacks, handled,
                 lastEvt, bar>>
  /\ UNCHANGED <<is_running, project_ok, auxVars>>

\* the finally block, lines 622-641
InstFinally(k) ==
  /\ inst_pc[k] = "finally"
  /\ download_thread' = [download_thread EXCEPT ![k] = FALSE]
  /\ IF zip_exists[job_id[k]]
     THEN /\ zip_exists' = [zip_exists EXCEPT ![job_id[k]] = FALSE]
          /\ temp_dir_exists' =
               IF temp_dir_exists /\ \A a \in AssetIdSet : ~zip_exists'[a]
               THEN FALSE ELSE temp_dir_exists
     ELSE UNCHANGED <<zip_exists, temp_dir_exists>>
  /\ guiQueue' = Append(guiQueue, Evt("finished", k, success[k], error_message[k], 0))
  /\ finished_emits' = [finished_emits EXCEPT ![k] = @ + 1]
  /\ inst_pc' = [inst_pc EXCEPT ![k] = "emitted"]
  /\ ReleaseLocals(k)
  /\ UNCHANGED <<asset_ids, ids_to_install, installed_count, first_error_msg, cancelled,
                 current_installer, asset_id, gui_pc, njobs, job_id, callbacks, handled,
                 lastEvt, bar>>
  /\ UNCHANGED <<is_running, project_ok, auxVars>>

\* run() has returned and the installer's thread ends
InstExit(k) ==
  /\ inst_pc[k] = "emitted"
  /\ inst_pc' = [inst_pc EXCEPT ![k] = "dead"]
  /\ InstFrame(k)
  /\ UNCHANGED <<guiQueue, download_thread, success, error_message, finished_emits, meta,
                 extract_ret>>
  /\ UNCHANGED <<dl_pc, dl_is_running, zip_exists, temp_dir_exists>>

\* --------------------------------------------------------- DownloadThread.run
DlFrame(k) ==
  /\ UNCHANGED <<asset_ids, ids_to_install, installed_count, first_error_msg, cancelled,
                 current_installer, asset_id, gui_pc, njobs, job_id, callbacks, handled,
                 lastEvt, bar>>
  /\ UNCHANGED <<inst_pc, is_running, download_thread, final_dl_error, success,
                 error_message, finished_emits, meta, extract_ret, stop_point>>
  /\ UNCHANGED <<dl_is_running, temp_dir_exists, project_ok, auxVars>>

\* int(100 * bytes_downloaded / total_size), or -1 when the size is unknown;
\* lines 193-197
DownloadPercent(bytes, total) ==
  IF total > 0 THEN (100 * bytes) \div total ELSE -1

\* DlFail that leaves the partial file
DlFail_keepsFile(k, err, evts) ==
  /\ dl_error' = [dl_error EXCEPT ![k] = err]
  /\ UNCHANGED zip_exists
  /\ inst_events' = [inst_events EXCEPT ![k] = Append(@, err)]
  /\ guiQueue' = guiQueue \o evts
  /\ dl_pc' = [dl_pc EXCEPT ![k] = "finished"]

\* the except clauses and the finally block, lines 208-225, with
\* _cleanup_failed_download, lines 227-234.  finished is connected to
\* store_dl_error (561-567), a plain function: the event is queued to the
\* thread the DownloadThread object lives in, the installer's.
DlFail(k, err, evts) ==
  /\ dl_error' = [dl_error EXCEPT ![k] = err]
  /\ zip_exists' = [zip_exists EXCEPT ![job_id[k]] = FALSE]
  /\ inst_events' = [inst_events EXCEPT ![k] = Append(@, err)]
  /\ guiQueue' = guiQueue \o evts
  /\ dl_pc' = [dl_pc EXCEPT ![k] = "finished"]

\* lines 168-186: connect, read the headers, open the destination file
DlConnect(k) ==
  /\ dl_pc[k] = "started"
  /\ \/ \E err \in {"Download timeout.", "Network error"} :
          /\ DlFail(k, err, <<Evt("dlstatus", k, FALSE, NoMsg, 0)>>)
          /\ UNCHANGED <<dl_total, dl_left, dl_bytes>>
     \/ \E total \in 0..MaxChunks, n \in 0..MaxChunks :
          /\ dl_total' = [dl_total EXCEPT ![k] = total]
          /\ dl_left' = [dl_left EXCEPT ![k] = n]
          /\ dl_bytes' = [dl_bytes EXCEPT ![k] = 0]
          /\ zip_exists' = [zip_exists EXCEPT ![job_id[k]] = TRUE]
          /\ guiQueue' = guiQueue \o <<Evt("dlstatus", k, FALSE, NoMsg, 0),
                                       Evt("dlstatus", k, FALSE, NoMsg, 0)>>
          /\ dl_pc' = [dl_pc EXCEPT ![k] = "loop"]
          /\ UNCHANGED <<dl_error, inst_events>>
  /\ DlFrame(k)

\* one iteration of the chunk loop, lines 187-197
DlChunk(k) ==
  /\ dl_pc[k] = "loop"
  /\ dl_left[k] > 0
  /\ \/ /\ DlFail(k, "Network error", <<>>)
        /\ UNCHANGED <<dl_total, dl_left, dl_bytes>>
     \/ IF ~dl_is_running[k]
        THEN /\ DlFail(k, "Download canceled by user.", <<>>)
             /\ UNCHANGED <<dl_total, dl_left, dl_bytes>>
        ELSE /\ dl_bytes' = [dl_bytes EXCEPT ![k] = @ + 1]
             /\ dl_left' = [dl_left EXCEPT ![k] = @ - 1]
             /\ guiQueue' = Append(guiQueue,
                   Evt("dlprogress", k, FALSE, NoMsg,
                       DownloadPercent(dl_bytes[k] + 1, dl_total[k])))
             /\ UNCHANGED <<dl_pc, dl_error, dl_total, inst_events, zip_exists>>
  /\ DlFrame(k)

\* DlEnd without the final progress value
DlEnd_noFinalProgress(k) ==
  /\ dl_pc[k] = "loop"
  /\ dl_left[k] = 0
  /\ IF dl_is_running[k]
     THEN /\ guiQueue' = guiQueue \o <<Evt("dlstatus", k, FALSE, NoMsg, 0)>>
          /\ inst_events' = [inst_events EXCEPT ![k] = Append(@, NoneStr)]
          /\ dl_pc' = [dl_pc EXCEPT ![k] = "finished"]
          /\ UNCHANGED <<dl_error, zip_exists>>
     ELSE DlFail(k, "Download completed but was interrupted.", <<>>)
  /\ UNCHANGED <<dl_total, dl_left, dl_bytes>>
  /\ DlFrame(k)

\* the response is exhausted: lines 198-206 and 220-225
DlEnd(k) ==
  /\ dl_pc[k] = "loop"
  /\ dl_left[k] = 0
  /\ IF dl_is_running[k]
     THEN /\ guiQueue' = guiQueue \o <<Evt("dlprogress", k, FALSE, NoMsg, 100),
                                       Evt("dlstatus", k, FALSE, NoMsg, 0)>>
          /\ inst_events' = [inst_events EXCEPT ![k] = Append(@, NoneStr)]
          /\ dl_pc' = [dl_pc EXCEPT ![k] = "finished"]
          /\ UNCHANGED <<dl_error, zip_exists>>
     ELSE DlFail(k, "Download completed but was interrupted.", <<>>)
  /\ UNCHANGED <<dl_total, dl_left, dl_bytes>>
  /\ DlFrame(k)

\* ------------------------------------------------------------------ system
Next ==
  \/ StartQueue
  \/ StartInstaller
  \/ GuiDispatch
  \/ Cancel
  \/ \E k \in Jobs : InstRun(k)
  \/ \E k \in Jobs : InstFetch(k)
  \/ \E k \in Jobs : InstCreateDownload(k)
  \/ \E k \in Jobs : InstStartDownload(k)
  \/ \E k \in Jobs : InstAfterWait(k)
  \/ \E k \in Jobs : InstExtract(k)
  \/ \E k \in Jobs : InstFinally(k)
  \/ \E k \in Jobs : InstExit(k)
  \/ \E k \in Jobs : DlConnect(k)
  \/ \E k \in Jobs : DlChunk(k)
  \/ \E k \in Jobs : DlEnd(k)

Spec == Init /\ [][Next]_vars

\* the fairness the thread scheduler and the GUI event loop give: every
\* step of a started thread is eventually taken, every queued event is
\* eventually dispatched; the user is never obliged to cancel
FairSpec ==
  /\ Spec
  /\ WF_vars(StartQueue)
  /\ WF_vars(StartInstaller)
  /\ WF_vars(GuiDispatch)
  /\ \A k \in Jobs :
       /\ WF_vars(InstRun(k))
       /\ WF_vars(InstFetch(k))
       /\ WF_vars(InstCreateDownload(k))
       /\ WF_vars(InstStartDownload(k))
       /\ WF_vars(InstAfterWait(k))
       /\ WF_vars(InstExtract(k))
       /\ WF_vars(InstFinally(k))
       /\ WF_vars(InstExit(k))
       /\ WF_vars(DlConnect(k))
       /\ WF_vars(DlChunk(k))
       /\ WF_vars(DlEnd(k))

\* ------------------------------------------- one DownloadThread on its own
\* the first job of a queue has started its DownloadThread and waits for it
\* (line 574); every event emitted so far has been handled
DlInit ==
  /\ \E a \in AssetIdSet :
       /\ asset_ids = <<a>>
       /\ job_id = [k \in Jobs |-> IF k = 1 THEN a ELSE 0]
  /\ ids_to_install = <<>>
  /\ installed_count = 0
  /\ first_error_msg = NoError
  /\ cancelled = FALSE
  /\ current_installer = 1
  /\ asset_id = 0
  /\ gui_pc = "idle"
  /\ guiQueue = <<>>
  /\ njobs = 1
  /\ callbacks = <<>>
  /\ handled = <<>>
  /\ lastEvt = Evt("status", 1, FALSE, NoMsg, 0)
  /\ bar = 20
  /\ inst_pc = [k \in Jobs |-> IF k = 1 THEN "wait" ELSE "none"]
  /\ is_running = [k \in Jobs |-> k = 1]
  /\ download_thread = [k \in Jobs |-> k = 1]
  /\ final_dl_error = [k \in Jobs |-> NoneStr]
  /\ inst_events = [k \in Jobs |-> <<>>]
  /\ success = [k \in Jobs |-> FALSE]
  /\ error_message = [k \in Jobs |-> NoMsg]
  /\ finished_emits = [k \in Jobs |-> 0]
  /\ meta = [k \in Jobs |-> IF k = 1 THEN "Ok" ELSE NoneStr]
  /\ extract_ret = [k \in Jobs |-> NoneStr]
  /\ stop_point = [k \in Jobs |-> NoStop]
  /\ dl_pc = [k \in Jobs |-> IF k = 1 THEN "started" ELSE "none"]
  /\ dl_is_running = [k \in Jobs |-> k = 1]
  /\ dl_error = [k \in Jobs |-> NoneStr]
  /\ dl_total = [k \in Jobs |-> 0]
  /\ dl_left = [k \in Jobs |-> 0]
  /\ dl_bytes = [k \in Jobs |-> 0]
  /\ zip_exists = [a \in AssetIdSet |-> FALSE]
  /\ temp_dir_exists = TRUE
  /\ project_ok = TRUE
  /\ ProcStart /\ ExIdle /\ SyIdle

\* DownloadThread.stop, src/utils.py 163-166
DlStop(k) ==
  /\ DownloadIsRunning(k)
  /\ dl_is_running[k]
  /\ dl_is_running' = [dl_is_running EXCEPT ![k] = FALSE]
  /\ UNCHANGED <<guiVars, instVars, fsVars, auxVars>>
  /\ UNCHANGED <<dl_pc, dl_error, dl_total, dl_left, dl_bytes>>

DlNext == DlConnect(1) \/ DlChunk(1) \/ DlEnd(1) \/ DlStop(1)

\* requests.get and every read of the response end within the timeout of
\* 30 s (line 176), so a started thread takes each of its steps
DlSpec ==
  /\ DlInit
  /\ [][DlNext]_vars
  /\ WF_vars(DlConnect(1))
  /\ WF_vars(DlChunk(1))
  /\ WF_vars(DlEnd(1))

\* ------------------------------------- installers of concurrent processes
\* Each launcher process runs one ExtensionInstaller; the processes share
\* the system temp directory (tempfile.gettempdir()).

\* no queue runs in the process observed by the other specifications
QueueIdle ==
  /\ QueueInit
  /\ asset_ids = <<>>
  /\ ~temp_dir_exists
  /\ project_ok

\* self.zip_save_path = self.temp_dir / f"asset_{self.asset_id}.zip" with
\* temp_dir = gettempdir()/godot_launcher_temp/godot_extensions, lines 491-500
ZipSavePath(p, a) == [dir |-> "godot_launcher_temp/godot_extensions", name |-> a]

\* ExtensionInstaller.__init__, lines 486-502
PrConstruct(p) ==
  /\ pr_pc[p] = "none"
  /\ \E a \in AssetIdSet :
       /\ pr_asset' = [pr_asset EXCEPT ![p] = a]
       /\ pr_path' = [pr_path EXCEPT ![p] = ZipSavePath(p, a)]
  /\ pr_pc' = [pr_pc EXCEPT ![p] = "constructed"]
  /\ UNCHANGED <<pr_file, pr_read, queueVars, exVars, syVars>>

\* DownloadThread.run opens save_path for writing, src/utils.py line 186
PrDownload(p) ==
  /\ pr_pc[p] = "constructed"
  /\ pr_file' = [pr_file EXCEPT ![pr_path[p].name] = p]
  /\ pr_pc' = [pr_pc EXCEPT ![p] = "downloading"]
  /\ UNCHANGED <<pr_asset, pr_path, pr_read, queueVars, exVars, syVars>>

\* the transfer ends: with success, or with an error and
\* _cleanup_failed_download, src/utils.py lines 220-234
PrDownloadEnd(p) ==
  /\ pr_pc[p] = "downloading"
  /\ \/ /\ pr_pc' = [pr_pc EXCEPT ![p] = "downloaded"]
        /\ UNCHANGED pr_file
     \/ /\ pr_pc' = [pr_pc EXCEPT ![p] = "finally"]
        /\ pr_file' = [pr_file EXCEPT ![pr_path[p].name] = 0]
  /\ UNCHANGED <<pr_asset, pr_path, pr_read, queueVars, exVars, syVars>>

\* extract_zip(self.zip_save_path, ...), line 597
PrExtract(p) ==
  /\ pr_pc[p] = "downloaded"
  /\ pr_read' = [pr_read EXCEPT ![p] = pr_file[pr_path[p].name]]
  /\ pr_pc' = [pr_pc EXCEPT ![p] = "finally"]
  /\ UNCHANGED <<pr_asset, pr_path, pr_file, queueVars, exVars, syVars>>

\* the finally block unlinks zip_save_path if it exists, lines 622-635
PrFinally(p) ==
  /\ pr_pc[p] = "finally"
  /\ pr_file' = [pr_file EXCEPT ![pr_path[p].name] = 0]
  /\ pr_pc' = [pr_pc EXCEPT ![p] = "done"]
  /\ UNCHANGED <<pr_asset, pr_path, pr_read, queueVars, exVars, syVars>>

ProcInit == QueueIdle /\ ProcStart /\ ExIdle /\ SyIdle

ProcNext ==
  \/ \E p \in Procs : PrConstruct(p)
  \/ \E p \in Procs : PrDownload(p)
  \/ \E p \in Procs : PrDownloadEnd(p)
  \/ \E p \in Procs : PrExtract(p)
  \/ \E p \in Procs : PrFinally(p)

ProcSpec == ProcInit /\ [][ProcNext]_vars

\* -------------------------------------------------- extract_zip (src/utils.py)
\* A directory tree is the set of its entries, one for every path below its
\* root.  A file that is a valid zip archive carries the tree stored in it.
DirEntry(p) == [path |-> p, kind |-> "dir", data |-> 0, zip |-> {}]
FileEntry(p, d) == [path |-> p, kind |-> "file", data |-> d, zip |-> {}]
ZipEntry(p, T) == [path |-> p, kind |-> "zip", data |-> 0, zip |-> T]

IsPrefix(p, q) == Len(p) <= Len(q) /\ SubSeq(q, 1, Len(p)) = p
Has(T, p) == \E e \in T : e.path = p
At(T, p) == CHOOSE e \in T : e.path = p
Name(e) == e.path[Len(e.path)]
\* Path.is_dir() and Path.is_file()
IsDirAt(T, p) == p = <<>> \/ (Has(T, p) /\ At(T, p).kind = "dir")
IsFileAt(T, p) == Has(T, p) /\ At(T, p).kind # "dir"
\* Path.iterdir()
Children(T, p) == {e \in T : Len(e.path) = Len(p) + 1 /\ IsPrefix(p, e.path)}
\* the tree below the directory p, and a tree placed below the path p
Rebase(T, p) ==
  {[e EXCEPT !.path = SubSeq(e.path, Len(p) + 1, Len(e.path))] :
     e \in {x \in T : Len(x.path) > Len(p) /\ IsPrefix(p, x.path)}}
Under(p, T) == {[e EXCEPT !.path = p \o e.path] : e \in T}

\* a copy that appends to an existing file
CopyFile_append(D, e, q) ==
  LET t == IF IsDirAt(D, q) THEN q \o <<Name(e)>> ELSE q
  IN  IF IsDirAt(D, t)
      THEN [dest |-> D, err |-> TRUE]
      ELSE [dest |-> {x \in D : x.path # t}
                     \cup {[e EXCEPT !.path = t,
                                     !.data = IF Has(D, t) THEN At(D, t).data + @ ELSE @]},
            err |-> FALSE]

\* shutil.copy2(src, dst): into dst when dst is a directory, else onto dst
CopyFile(D, e, q) ==
  LET t == IF IsDirAt(D, q) THEN q \o <<Name(e)>> ELSE q
  IN  IF IsDirAt(D, t)
      THEN [dest |-> D, err |-> TRUE]
      ELSE [dest |-> {x \in D : x.path # t} \cup {[e EXCEPT !.path = t]}, err |-> FALSE]

RECURSIVE CopyTree(_, _, _)
RECURSIVE CopyItems(_, _, _, _)

\* the loop of shutil.copytree over the entries of the source directory:
\* errors are collected and the loop goes on
CopyItems(D, S, items, q) ==
  IF items = {} THEN [dest |-> D, err |-> FALSE]
  ELSE LET e == CHOOSE x \in items : TRUE
           r == IF e.kind = "dir"
                THEN CopyTree(D, Rebase(S, e.path), q \o <<Name(e)>>)
                ELSE CopyFile(D, e, q \o <<Name(e)>>)
           rest == CopyItems(r.dest, S, items \ {e}, q)
       IN  [dest |-> rest.dest, err |-> r.err \/ rest.err]

\* CopyTree that empties an existing destination directory first
CopyTree_replace(D, S, q) ==
  IF IsFileAt(D, q)
  THEN [dest |-> D, err |-> TRUE]
  ELSE CopyItems({x \in D : ~(Len(x.path) > Len(q) /\ IsPrefix(q, x.path))}
                   \cup {DirEntry(q)}, S, Children(S, <<>>), q)

\* shutil.copytree(src, dst, dirs_exist_ok=True), S the tree below src;
\* os.makedirs(dst, exist_ok=True) fails when dst is a file
CopyTree(D, S, q) ==
  IF IsFileAt(D, q)
  THEN [dest |-> D, err |-> TRUE]
  ELSE CopyItems(D \cup {DirEntry(q)}, S, Children(S, <<>>), q)

\* "for item in src.iterdir(): copytree or copy2 to q/item.name" (lines
\* 391-401, 447-465): the first exception ends the loop; every order in
\* which iterdir may list the items
RECURSIVE CopyContents(_, _, _, _)
CopyContents(D, S, items, q) ==
  IF items = {} THEN {[dest |-> D, err |-> FALSE]}
  ELSE UNION {
         LET r == IF e.kind = "dir"
                  THEN CopyTree(D, Rebase(S, e.path), q \o <<Name(e)>>)
                  ELSE CopyFile(D, e, q \o <<Name(e)>>)
         IN  IF r.err THEN {[dest |-> r.dest, err |-> TRUE]}
             ELSE CopyContents(r.dest, S, items \ {e}, q)
         : e \in items}

RECURSIVE Scan(_, _, _, _, _)
RECURSIVE ScanZips(_, _, _, _, _, _)
RECURSIVE ScanSubdirs(_, _, _, _, _, _)

\* what a scan leaves behind: its result, the destination, and K, the record
\* of the addons directories copied and the scratch directories made and left
Outcome(r, D, K) == [res |-> r, dest |-> D, k |-> K]
NoneYet == [copied |-> {}, live |-> {}, made |-> 0]

\* tempfile.mkdtemp (349, 371, 410): a fresh scratch directory, named here
\* by the chain of nested archives it holds the content of
MkDTemp(K, id) == [K EXCEPT !.live = @ \cup {id}, !.made = @ + 1]

\* a clean-up that is skipped when the scan raised
RmTree_unlessRaised(o, id) ==
  IF o.res = "Raise" THEN o ELSE [o EXCEPT !.k.live = @ \ {id}]

\* "finally: shutil.rmtree(...)" (380-383, 418-421, 470-475), run however
\* the scan inside the try block ended
RmTree(o, id) == [o EXCEPT !.k.live = @ \ {id}]

\* lines 370-383 and 409-421: the archive z is unpacked into a fresh scratch
\* directory, the scan restarts there, and the directory is removed
NestedScan(z, D, K, via) ==
  {RmTree(o, Append(via, z.path)) :
     o \in Scan(z.zip, <<>>, D, MkDTemp(K, Append(via, z.path)), Append(via, z.path))}


\* lines 425-433: the subdirectories of c, in any order, until one scan
\* returns True; an exception leaves the function
ScanSubdirs(T, c, dirs, D, K, via) ==
  IF dirs = {} THEN {Outcome("False", D, K)}
  ELSE UNION {
         UNION {IF o.res = "False"
                THEN ScanSubdirs(T, c, dirs \ {e}, o.dest, o.k, via)
                ELSE {o}
                : o \in Scan(T, e.path, D, K, via)}
         : e \in dirs}

\* ScanZips that never opens a nested archive
ScanZips_skip(T, c, zips, D, K, via) ==
  ScanSubdirs(T, c, {e \in Children(T, c) : e.kind = "dir"}, D, K, via)

\* lines 404-423: the zip files of c named addons.zip or addons, in any
\* order; the result of the first nested scan is returned, an exception
\* raised by it is swallowed (line 422) and the loop goes on
ScanZips(T, c, zips, D, K, via) ==
  IF zips = {}
  THEN ScanSubdirs(T, c, {e \in Children(T, c) : e.kind = "dir"}, D, K, via)
  ELSE UNION {
         UNION {IF o.res = "Raise"
                THEN ScanZips(T, c, zips \ {e}, o.dest, o.k, via)
                ELSE {o}
                : o \in NestedScan(e, D, K, via)}
         : e \in zips}

\* find_and_process_addons(current_dir), lines 356-433, on the directory c
\* of the scratch tree T; via lists the nested archives entered so far
Scan(T, c, D, K, via) ==
  LET addons == c \o <<"addons">>
      zips == {e \in Children(T, c) : e.kind = "zip" /\ Name(e) \in {"addons.zip", "addons"}}
  IN  IF ~Has(T, addons) THEN ScanZips(T, c, zips, D, K, via)
      ELSE IF At(T, addons).kind = "dir"
      THEN LET S == Rebase(T, addons)
               K1 == [K EXCEPT !.copied = @ \cup {[via |-> via, path |-> addons, tree |-> S]}]
           IN  {Outcome(IF r.err THEN "Raise" ELSE "True", r.dest, K1) :
                  r \in CopyContents(D, S, Children(S, <<>>), <<>>)}
      ELSE IF At(T, addons).kind = "zip"
      THEN UNION {IF o.res = "Raise"
                  THEN ScanZips(T, c, zips, o.dest, o.k, via)
                  ELSE {o}
                  : o \in NestedScan(At(T, addons), D, K, via)}
      ELSE ScanZips(T, c, zips, D, K, via)

\* a fallback that never unwraps a single top-level folder
Fallback_flat(T, D) ==
  IF IsFileAt(D, <<"addons">>) THEN {[dest |-> D, err |-> TRUE]}
  ELSE CopyContents(D \cup {DirEntry(<<"addons">>)}, T, Children(T, <<>>), <<"addons">>)

\* lines 435-465: nothing was found, everything goes to destination/addons
Fallback(T, D) ==
  LET a == <<"addons">>
      top == Children(T, <<>>)
      single == CHOOSE e \in top : TRUE
      D1 == D \cup {DirEntry(a)}
  IN  IF IsFileAt(D, a) THEN {[dest |-> D, err |-> TRUE]}
      ELSE IF Cardinality(top) = 1
      THEN IF single.kind = "dir"
           THEN CopyContents(D1, Rebase(T, single.path),
                             Children(Rebase(T, single.path), <<>>), a)
           ELSE {CopyFile(D1, single, a \o <<Name(single)>>)}
      ELSE CopyContents(D1, T, top, a)

\* extract_zip(zip_path, destination_dir, remove_common_prefix=True), lines
\* 328-479, for a readable archive holding T: the result "Raise" is an
\* exception on its way to "return False" (477-479), after the finally
\* block (470-475) has removed the scratch directory
ExtractOutcomes(T, D) ==
  {RmTree(o, <<>>) : o \in
     UNION {IF o.res = "True" THEN {o}
            ELSE IF o.res = "Raise" THEN {o}
            ELSE {Outcome(IF r.err THEN "Raise" ELSE "True", r.dest, o.k) :
                    r \in Fallback(T, o.dest)}
            : o \in Scan(T, <<>>, D, MkDTemp(NoneYet, <<>>), <<>>)}}

\* --- the archives and destinations the call is checked on
\* what an addon ships: Foo (a folder, with or without plugin.cfg, or a
\* file) and x.txt (a file or a folder)
Payloads ==
  LET FooOpts == {{}, {DirEntry(<<"Foo">>)}}
                 \cup {{FileEntry(<<"Foo">>, d)} : d \in 1..MaxData}
                 \cup {{DirEntry(<<"Foo">>), FileEntry(<<"Foo", "plugin.cfg">>, d)} :
                         d \in 1..MaxData}
      XOpts == {{}, {DirEntry(<<"x.txt">>)}}
               \cup {{FileEntry(<<"x.txt">>, d)} : d \in 1..MaxData}
  IN  {f \cup x : f \in FooOpts, x \in XOpts}

\* what the destination may hold before the call
Dests ==
  LET FooOpts == {{}, {FileEntry(<<"Foo">>, 0)}, {DirEntry(<<"Foo">>)},
                  {DirEntry(<<"Foo">>), FileEntry(<<"Foo", "plugin.cfg">>, 0)},
                  {DirEntry(<<"Foo">>), FileEntry(<<"Foo", "old.txt">>, 0)}}
      XOpts == {{}, {FileEntry(<<"x.txt">>, 0)}, {DirEntry(<<"x.txt">>)}}
      KeepOpts == {{}, {FileEntry(<<"keep.txt">>, 0)}}
      Plain == {f \cup x \cup k : f \in FooOpts, x \in XOpts, k \in KeepOpts}
  IN  Plain
      \cup {{DirEntry(<<"addons">>)} \cup Under(<<"addons">>, D) : D \in Plain}
      \cup {{FileEntry(<<"addons">>, 0)}}

AddonsAtRoot(P) == {DirEntry(<<"addons">>)} \cup Under(<<"addons">>, P)

\* the innermost layouts: addons at the root, alone or beside a README, no
\* addons entry at all, addons folders in two sibling folders, and a zip
\* file named addons
BaseLayouts(P) ==
  { AddonsAtRoot(P),
    AddonsAtRoot(P) \cup {FileEntry(<<"README">>, 1)},
    P,
    {DirEntry(<<"a">>), DirEntry(<<"b">>), DirEntry(<<"b", "addons">>),
     FileEntry(<<"b", "addons", "other.txt">>, 1)} \cup Under(<<"a">>, AddonsAtRoot(P)),
    {ZipEntry(<<"addons">>, AddonsAtRoot(P))} }

\* a tree wrapped in a folder, and a tree packed into a file addons.zip
InFolder(T) == {DirEntry(<<"wrapper">>)} \cup Under(<<"wrapper">>, T)
InZip(T) == {ZipEntry(<<"addons.zip">>, T)}

RECURSIVE Wrapped(_, _)
Wrapped(Ts, n) ==
  IF n = 0 THEN Ts
  ELSE Ts \cup Wrapped({InFolder(T) : T \in Ts} \cup {InZip(T) : T \in Ts}, n - 1)

Archives == Wrapped(UNION {BaseLayouts(P) : P \in Payloads}, MaxWrap)

ExInit ==
  /\ QueueIdle
  /\ ProcStart
  /\ SyIdle
  /\ ex_pc = "ready"
  /\ ex_archive \in Archives
  /\ ex_dest0 \in Dests
  /\ ex_dest = ex_dest0
  /\ ex_ret = NoneStr
  /\ ex_copied = {}
  /\ ex_scratch = {}
  /\ ex_made = 0

\* one call of extract_zip
ExtractZip ==
  /\ ex_pc = "ready"
  /\ \E o \in ExtractOutcomes(ex_archive, ex_dest) :
       /\ ex_ret' = IF o.res = "True" THEN "True" ELSE "False"
       /\ ex_dest' = o.dest
       /\ ex_copied' = o.k.copied
       /\ ex_scratch' = o.k.live
       /\ ex_made' = o.k.made
  /\ ex_pc' = "done"
  /\ UNCHANGED <<ex_archive, ex_dest0, queueVars, procVars, syVars>>

\* the archives a later installation of the addons already copied ships:
\* the same addons folder at the root, or wrapped in a folder and a zip file
AgainArchives ==
  UNION {{AddonsAtRoot(c.tree), InFolder(InZip(AddonsAtRoot(c.tree)))} : c \in ex_copied}

\* a second call of extract_zip, for the same addon, on the destination the
\* first call left
ExtractAgain ==
  /\ ex_pc = "done"
  /\ \E A \in AgainArchives :
       \E o \in ExtractOutcomes(A, ex_dest) :
          /\ ex_archive' = A
          /\ ex_ret' = IF o.res = "True" THEN "True" ELSE "False"
          /\ ex_dest' = o.dest
          /\ ex_copied' = o.k.copied
          /\ ex_scratch' = o.k.live
          /\ ex_made' = o.k.made
  /\ ex_dest0' = ex_dest
  /\ ex_pc' = "again"
  /\ UNCHANGED <<queueVars, procVars, syVars>>

ExNext == ExtractZip \/ ExtractAgain

ExSpec == ExInit /\ [][ExNext]_vars

\* ------------- synchronize_projects_with_default_folder (project_handler.py)
\* A project list is a dict name -> path, written as a set of entries with
\* distinct names.  Paths 1..MaxProjects are folders inside the default
\* projects folder; Outside is a folder elsewhere that exists and Gone one
\* that no longer exists.
Names == 1..MaxProjects
InPaths == 1..MaxProjects
Outside == 0
Gone == -1
Paths == InPaths \cup {Outside, Gone}
Entry(n, p) == [name |-> n, path |-> p]
\* stored_path.is_relative_to(default_folder_path), and stored_path.exists()
\* for a path outside the default folder
IsInsideDefaultFolder(p) == p \in InPaths
PathExists(p) == p # Gone

\* dicts name -> path and path -> name as sets of entries
IsDict(S) == \A e, f \in S : e.name = f.name => e = f
IsPathMap(S) == \A e, f \in S : e.path = f.path => e = f
PathsOf(S) == {e.path : e \in S}

\* DataManager.add_project, data_manager.py 190-207: projects[name] = path
AddProject(P, n, p) == {e \in P : e.name # n} \cup {Entry(n, p)}

\* DataManager.remove_project, data_manager.py 209-219
RemoveProject(P, n) == {e \in P : e.name # n}

\* scan_projects_folder, lines 244-310: found_projects[name] = path for
\* every project folder; of two folders with the same project name the one
\* scanned last stays
ScanProjectsFolder(disk) ==
  LET all == {Entry(disk[p], p) : p \in {q \in InPaths : disk[q] # 0}}
  IN  {S \in SUBSET all : IsDict(S) /\ {e.name : e \in S} = {e.name : e \in all}}

\* lines 846-856: stored_paths_map[resolved_path] = name; of two names
\* stored with the same path the one met last stays
StoredPathsMaps(S) ==
  {M \in SUBSET S : IsPathMap(M) /\ PathsOf(M) = PathsOf(S)}

\* lines 873-894: add or update the projects of the scan, in any order of
\* the dict; every result that an order can give
RECURSIVE AddOrUpdate(_, _, _)
AddOrUpdate(P, todo, M) ==
  IF todo = {} THEN {P}
  ELSE UNION {
         LET known == {m \in M : m.path = e.path}
             stored_name == (CHOOSE m \in known : TRUE).name
             P1 == IF known # {}
                   THEN IF stored_name # e.name
                        THEN AddProject(RemoveProject(P, stored_name), e.name, e.path)
                        ELSE P
                   ELSE AddProject(P, e.name, e.path)
         IN  AddOrUpdate(P1, todo \ {e}, M)
         : e \in todo}

\* lines 896-925: the names of the stale entries of stored_paths_map
ProjectsToRemove(M, scanned) ==
  {m.name : m \in {x \in M :
      \/ IsInsideDefaultFolder(x.path) /\ x.path \notin PathsOf(scanned)
      \/ ~IsInsideDefaultFolder(x.path) /\ ~PathExists(x.path)}}

\* lines 874-929: "updated" is set by every add, rename and removal
Updated(stored, scanned, M) ==
  \/ \E e \in scanned : \A m \in M : m.path = e.path => m.name # e.name
  \/ ProjectsToRemove(M, scanned) # {}

SyInit ==
  /\ QueueIdle
  /\ ProcStart
  /\ ExIdle
  /\ sy_pc = "ready"
  /\ sy_folder \in {"unset", "notdir", "valid"}
  /\ sy_disk \in [InPaths -> Names \cup {0}]
  /\ sy_scanned = {}
  /\ sy_stored0 \in {S \in SUBSET {Entry(n, p) : n \in Names, p \in Paths} : IsDict(S)}
  /\ sy_stored = sy_stored0
  /\ sy_ret = NoneStr

\* lines 818-837: no default folder, or not a directory
SyncSkipped ==
  /\ sy_pc = "ready"
  /\ sy_folder # "valid"
  /\ sy_pc' = "done"
  /\ sy_ret' = "False"
  /\ UNCHANGED <<sy_folder, sy_disk, sy_scanned, sy_stored0, sy_stored,
                  queueVars, procVars, exVars>>

\* lines 839-929
SynchronizeProjects ==
  /\ sy_pc = "ready"
  /\ sy_folder = "valid"
  /\ \E scanned \in ScanProjectsFolder(sy_disk) :
       \E M \in StoredPathsMaps(sy_stored) :
          \E P \in AddOrUpdate(sy_stored, scanned, M) :
             /\ sy_scanned' = scanned
             /\ sy_stored' = {e \in P : e.name \notin ProjectsToRemove(M, scanned)}
             /\ sy_ret' = IF Updated(sy_stored, scanned, M) THEN "True" ELSE "False"
  /\ sy_pc' = "done"
  /\ UNCHANGED <<sy_folder, sy_disk, sy_stored0, queueVars, procVars, exVars>>

SyNext == SyncSkipped \/ SynchronizeProjects

SySpec == SyInit /\ [][SyNext]_vars

\* ------------------------------------------------------------------ claims
\* a job is between its start and its terminal finished event
JobActive(k) ==
  inst_pc[k] \in {"started", "fetch", "download", "created", "wait", "extract", "finally"}

\* the queue has handled the terminal result of job k
ResultHandled(k) == \E i \in DOMAIN handled : handled[i].job = k

\* nothing is pending on the GUI thread when run_next_installer processes
\* events: every event of the job just handled was queued before its result
QueueEmptyAtProcessEvents == gui_pc = "processEvents" => guiQueue = <<>>

\* C1: at every instant at most one job is between its start and its
\* terminal finished event and at most one download is running; job k+1 is
\* created only after the queue has handled the terminal result of job k.
C1_OneJobAtATime ==
  /\ Cardinality({k \in Jobs : JobActive(k)}) <= 1
  /\ Cardinality({k \in Jobs : DownloadIsRunning(k)}) <= 1
  /\ \A k \in Jobs : (k > 1 /\ inst_pc[k] # "none") => ResultHandled(k - 1)

\* the second job downloads after the first job's result was handled
C1_Witness ==
  /\ njobs >= 2
  /\ inst_pc[2] = "wait"
  /\ DownloadIsRunning(2)
  /\ ResultHandled(1)

\* job k has a finished event with this kind of message queued to the GUI
FinishedQueued(k, kind) ==
  \E i \in DOMAIN guiQueue :
    /\ guiQueue[i].t = "finished"
    /\ guiQueue[i].job = k
    /\ guiQueue[i].msg.kind = kind

\* C2: whenever a job emits its terminal finished event, whatever the
\* outcome, its temporary archive file does not exist at that moment.
C2_NoTempFileAtFinish ==
  [][\A k \in Jobs : finished_emits'[k] > finished_emits[k] => ~zip_exists'[job_id[k]]]_vars

\* a job that downloaded its archive and succeeded has emitted its result, and
\* its finally block removed the archive and the temp directory it had emptied
C2_Witness ==
  \E k \in Jobs :
    /\ inst_pc[k] = "emitted"
    /\ FinishedQueued(k, "success")
    /\ ~zip_exists[job_id[k]]
    /\ ~temp_dir_exists

\* C3: every started job emits exactly one terminal finished result, whatever
\* step fails; no error escapes ExtensionInstaller.run.
C3_ExactlyOneResult ==
  \A k \in Jobs :
    /\ finished_emits[k] <= 1
    /\ inst_pc[k] # "crashed"
    /\ inst_pc[k] = "dead" => finished_emits[k] = 1

\* C4: finished_callback is invoked at most once, whatever the number and
\* timing of cancel() calls.
C4_SummaryAtMostOnce == Len(callbacks) <= 1

\* cancel() was called after the queue had finalized without cancellation
C4_Witness ==
  /\ Len(callbacks) = 1
  /\ callbacks[1].kind = "Installation complete."
  /\ cancelled
  /\ Len(handled) = Len(asset_ids)
  /\ Len(asset_ids) >= 2

\* C5: under fair scheduling, with every lookup and transfer terminating, the
\* queue eventually finalizes and invokes finished_callback.
C5_EventuallyFinalizes == <>(callbacks # <<>>)

\* C6: if the archive was downloaded successfully but the extractor fails,
\* the job's terminal result is a failure.
C6_ExtractFailureFails ==
  \A k \in Jobs :
    (inst_pc[k] = "finally" /\ dl_error[k] = NoneStr /\ extract_ret[k] = "False")
      => ~success[k]

\* the transfer of job k ended with an error that is not a cancellation
TransferFailed(k) == dl_error[k] \in {"Download timeout.", "Network error"}

\* C7: if a job's transfer terminates with an error, the job never enters
\* extraction and its terminal result is a failure carrying the download error.
C7_DownloadErrorFails ==
  \A k \in Jobs :
    TransferFailed(k) =>
      /\ inst_pc[k] # "extract"
      /\ extract_ret[k] = NoneStr
      /\ inst_pc[k] = "finally" =>
           (~success[k] /\ error_message[k].detail = dl_error[k])

\* the metadata lookup of job k returned nothing, or a record with no URL
MetaFailed(k) == meta[k] \in {"NotFound", "NoUrl"}

MetaFailureDetails == {"Details not found", "Download URL not found"}

\* C8: a job whose metadata lookup returns nothing, or a record without a
\* download URL, fails at once: it creates no transfer and no temp file and
\* never calls the extractor; the queue records the failure and, not being
\* cancelled and having ids left, goes on to the next id.
C8_MetadataFailureFailsFast ==
  /\ \A k \in Jobs :
       MetaFailed(k) =>
         /\ inst_pc[k] = "finally"
         /\ ~success[k]
         /\ error_message[k].kind \in {"failed", "cancelled"}
         /\ dl_pc[k] = "none"
         /\ ~download_thread[k]
         /\ ~zip_exists[job_id[k]]
         /\ extract_ret[k] = NoneStr
  /\ LET n == Len(handled)
     IN  (/\ lastEvt.t = "finished"
          /\ lastEvt.msg.detail \in MetaFailureDetails
          /\ n >= 1
          /\ ~handled[n].cancelled
          /\ n < Len(asset_ids))
         => /\ handled[n].job = lastEvt.job
            /\ ~handled[n].success
            /\ first_error_msg # NoError
            /\ callbacks = <<>>
            /\ \/ gui_pc = "processEvents" /\ asset_id = asset_ids[n + 1]
               \/ njobs = n + 1 /\ job_id[n + 1] = asset_ids[n + 1]

\* the first job failed on its metadata and the second job has been started
C8_Witness ==
  /\ lastEvt.t = "finished"
  /\ lastEvt.job = 1
  /\ lastEvt.msg.detail \in MetaFailureDetails
  /\ ~cancelled
  /\ njobs = 2
  /\ inst_pc[2] = "started"

\* C9: job results are handled in the order the asset ids were supplied, and
\* no status or progress event of job N+1 is observed, or even queued, before
\* the terminal result of job N has been handled.
C9_Fifo ==
  /\ \A i \in DOMAIN handled : handled[i].job = i /\ handled[i].id = asset_ids[i]
  /\ \A i \in DOMAIN guiQueue :
       guiQueue[i].t # "finished" => guiQueue[i].job <= Len(handled) + 1
  /\ lastEvt.t \notin {NoneStr, "finished"} => lastEvt.job <= Len(handled) + 1

\* two different ids were handled and a progress event of the second job
\* was observed
C9_Witness ==
  /\ Len(asset_ids) >= 2
  /\ asset_ids[1] # asset_ids[2]
  /\ Len(handled) = 1
  /\ lastEvt.t = "dlprogress"
  /\ lastEvt.job = 2

StoppedInDownloadPhase(k) ==
  /\ stop_point[k].pc \in {"download", "created", "wait"}
  /\ stop_point[k].dl # "finished"

\* C15: after a stop request made on a job during its download phase the
\* transfer writes at most one further chunk.
C15_AtMostOneChunkAfterStop ==
  \A k \in Jobs :
    StoppedInDownloadPhase(k) => dl_bytes[k] <= stop_point[k].bytes + 1

\* every thread has ended and the GUI thread has no event left to handle
QueueAtRest ==
  /\ gui_pc = "idle"
  /\ guiQueue = <<>>
  /\ \A k \in Jobs : inst_pc[k] \in {"none", "dead", "crashed"}

\* the asset id of the first failing result in queue order, 0 if none failed
FirstFailureId ==
  LET F == {i \in DOMAIN handled : ~handled[i].success}
  IN  IF F = {} THEN 0
      ELSE handled[CHOOSE i \in F : \A j \in F : i <= j].id

\* once the queue has come to rest without a cancellation, every id of the
\* list was run and the summary names the first failing job
AllRunFirstErrorKept ==
  (QueueAtRest /\ ~cancelled /\ asset_ids # <<>>) =>
     /\ njobs = Len(asset_ids)
     /\ Len(handled) = Len(asset_ids)
     /\ Len(callbacks) = 1
     /\ callbacks[1].err.id = FirstFailureId

\* C11: without cancellation a failing job never stops the queue: when the
\* queue has come to rest every id of the list was run, and the error of
\* the final summary is that of the first failing job in queue order.
C11_FailureNeverStopsQueue == AllRunFirstErrorKept

\* what remains of it when no job dies at line 521 without a result
AllRunUnlessCrashed ==
  (\A k \in Jobs : inst_pc[k] # "crashed") => AllRunFirstErrorKept

\* the first error, once set, is never overwritten
FirstErrorNeverOverwritten ==
  [][first_error_msg # NoError => first_error_msg' = first_error_msg]_vars

\* C12: once cancel() has been called the queue constructs and starts no
\* further job, also when the cancel is handled while run_next_installer
\* processes UI events before it starts the next job.
C12_NoJobAfterCancel == [][cancelled => njobs' = njobs]_vars

\* the job owns a transfer (self.download_thread is set) that has not terminated
OwnsLiveTransfer(k) == download_thread[k] /\ dl_pc[k] # "finished"

\* C13: a cancel() called while a job runs (started, terminal result not
\* yet emitted) sets that job's stop flag, and a stop requested on a job
\* that owns a transfer which has not terminated sets the transfer's flag.
C13_StopReachesJobAndTransfer ==
  [][/\ (~cancelled /\ cancelled') =>
          \A k \in Jobs : JobActive(k) => ~is_running'[k]
     /\ \A k \in Jobs :
          (is_running[k] /\ ~is_running'[k] /\ OwnsLiveTransfer(k)) => ~dl_is_running'[k]
    ]_vars

\* the first half of C13 alone: the stop request reaches the running job
StopReachesRunningJob ==
  [][(~cancelled /\ cancelled') =>
        \A k \in Jobs : JobActive(k) => ~is_running'[k]]_vars

C18_ProgressMonotone == [][bar' >= bar /\ bar' \in 0..100]_vars

\* the installer of process p has been constructed and has not finished
PrRunning(p) == pr_pc[p] \in {"constructed", "downloading", "downloaded", "finally"}

\* C17: two installers that run at the same time in different processes
\* never have the same temporary archive path, also for the same asset id.
C17_DistinctTempPaths ==
  \A p, q \in Procs :
    (p # q /\ PrRunning(p) /\ PrRunning(q)) => pr_path[p] # pr_path[q]

\* what follows from the shared path: an installer extracts a file that is
\* not its own download
ExtractsOwnDownload ==
  \A p \in Procs : pr_read[p] \in {-1, p}

\* no entry of the tree C meets a destination entry of the other kind
NoKindClash(D, C) ==
  \A e \in C : Has(D, e.path) => ((At(D, e.path).kind = "dir") <=> (e.kind = "dir"))

\* the destination D with the tree C merged into it: the entries of C, and
\* the entries of D at every other path
Merged(D, C) == {e \in D : ~Has(C, e.path)} \cup C

\* C19: when the scan finds a regular directory named addons (and none of
\* its entries meets a destination entry of the other kind), the call
\* returns True, that directory is the only addons directory copied, and
\* the destination is what it was with the directory's contents merged in:
\* same-named folders merged, same-named files overwritten, the rest kept.
C19_AddonsContentsMerged ==
  (ex_pc = "done" /\ ex_copied # {} /\ \A c \in ex_copied : NoKindClash(ex_dest0, c.tree)) =>
     /\ ex_ret = "True"
     /\ Cardinality(ex_copied) = 1
     /\ \A c \in ex_copied : ex_dest = Merged(ex_dest0, c.tree)

\* Foo/plugin.cfg of an addons folder in a wrapper folder was merged into a
\* destination that had Foo/plugin.cfg, Foo/old.txt or keep.txt
C19_Witness ==
  /\ ex_pc = "done"
  /\ ex_ret = "True"
  /\ \E c \in ex_copied : c.path = <<"wrapper", "addons">> /\ Has(c.tree, <<"Foo", "plugin.cfg">>)
  /\ Has(ex_dest0, <<"Foo", "old.txt">>)
  /\ Has(ex_dest0, <<"keep.txt">>)
  /\ Has(ex_dest, <<"Foo", "old.txt">>)
  /\ Has(ex_dest, <<"Foo", "plugin.cfg">>)
  /\ ~Has(ex_dest, <<"addons">>)

\* an archive whose root holds only wrapper/addons.zip, n levels deep around
\* an archive holding addons/Foo/plugin.cfg
RECURSIVE WrappedAddon(_, _)
WrappedAddon(n, d) ==
  IF n = 0
  THEN AddonsAtRoot({DirEntry(<<"Foo">>), FileEntry(<<"Foo", "plugin.cfg">>, d)})
  ELSE InFolder(InZip(WrappedAddon(n - 1, d)))

\* the nesting level of ex_archive when it is such an archive, else 0
NestingLevel ==
  IF \E n \in 1..(MaxWrap \div 2), d \in 1..MaxData : ex_archive = WrappedAddon(n, d)
  THEN CHOOSE n \in 1..(MaxWrap \div 2) : \E d \in 1..MaxData : ex_archive = WrappedAddon(n, d)
  ELSE 0

NoMarker(T) == \A e \in T : Name(e) \notin {"addons", "addons.zip"}

\* what the fallback has to copy: the contents of the only top-level entry
\* when that is a folder, else every top-level entry
FallbackPayload(T) ==
  LET top == Children(T, <<>>)
  IN  IF Cardinality(top) = 1 /\ (\A e \in top : e.kind = "dir")
      THEN Rebase(T, (CHOOSE e \in top : TRUE).path)
      ELSE T

\* C21: when the archive holds no addons marker (and destination/addons is
\* not a file and none of the copied entries meets an existing entry of the
\* other kind), the call returns True and the destination is what it was
\* plus destination/addons holding the contents of the only top-level
\* folder, or else every top-level entry unchanged.
C21_FallbackIntoAddons ==
  (/\ ex_pc = "done"
   /\ NoMarker(ex_archive)
   /\ ~IsFileAt(ex_dest0, <<"addons">>)
   /\ NoKindClash(ex_dest0, Under(<<"addons">>, FallbackPayload(ex_archive)))) =>
     /\ ex_ret = "True"
     /\ ex_copied = {}
     /\ ex_dest = Merged(ex_dest0 \cup {DirEntry(<<"addons">>)},
                         Under(<<"addons">>, FallbackPayload(ex_archive)))

\* both cases happened: a single wrapper folder was unwrapped, or two
\* top-level entries were copied as they are, beside what was there
C21_Witness ==
  /\ ex_pc = "done"
  /\ ex_ret = "True"
  /\ NoMarker(ex_archive)
  /\ Children(ex_archive, <<>>) = {DirEntry(<<"wrapper">>)}
  /\ IsFileAt(ex_dest, <<"addons", "Foo", "plugin.cfg">>)
  /\ IsFileAt(ex_dest, <<"addons", "x.txt">>)
  /\ IsFileAt(ex_dest0, <<"addons", "keep.txt">>)
  /\ IsFileAt(ex_dest, <<"addons", "keep.txt">>)
  /\ ~Has(ex_dest, <<"addons", "wrapper">>)

\* the layouts of an addon whose own top-level entries are P: addons at the
\* root, addons in a project folder, zip inside zip, and no addons marker
\* (the entries at the root, or in a project folder)
AcceptedLayouts(P) ==
  { AddonsAtRoot(P), InFolder(AddonsAtRoot(P)), InFolder(InZip(AddonsAtRoot(P))),
    P, InFolder(P) }

\* C22: the installer passes projectDir/addons as the destination; after a
\* successful extraction of any accepted layout, every top-level entry of
\* the addon is a direct child of that directory, as the same kind of entry.
C22_DirectlyUnderProjectAddons ==
  (ex_pc = "done" /\ ex_ret = "True") =>
     \A P \in Payloads :
        ex_archive \in AcceptedLayouts(P) =>
           \A e \in Children(P, <<>>) :
              Has(ex_dest, e.path) /\ (At(ex_dest, e.path).kind = "dir" <=> e.kind = "dir")

\* the same for the layouts that hold an addons marker, into a destination
\* without entries of the other kind
MarkedLayoutsDirectlyUnderAddons ==
  (ex_pc = "done" /\ ex_ret = "True") =>
     \A P \in Payloads :
        (/\ ex_archive \in AcceptedLayouts(P) \ {P, InFolder(P)}
         /\ NoKindClash(ex_dest0, P)) =>
           \A e \in Children(P, <<>>) :
              Has(ex_dest, e.path) /\ (At(ex_dest, e.path).kind = "dir" <=> e.kind = "dir")

\* C23: after extract_zip has returned, True or False, none of the scratch
\* directories it created, for the archive or for a nested archive at any
\* depth, is left on disk.
C23_NoScratchLeft ==
  ex_pc = "done" => (ex_made >= 1 /\ ex_scratch = {})

\* a call that unpacked the archive and two nested archives, and whose copy
\* out of the innermost one raised (so that the fallback ran), has left no
\* scratch directory
C23_Witness ==
  /\ ex_pc = "done"
  /\ ex_made >= 3
  /\ ex_copied # {}
  /\ Has(ex_dest, <<"addons", "wrapper">>)
  /\ ex_scratch = {}

\* C24: when a call has succeeded by copying the contents of an addons
\* folder (none of its entries meeting a destination entry of the other
\* kind), a second call with an archive whose addons folder has the same
\* contents leaves every entry of the destination, and every file's
\* contents, as the first call left them.
C24_SecondExtractionChangesNothing ==
  [][(/\ ex_pc = "done" /\ ex_pc' = "again"
      /\ ex_ret = "True"
      /\ \E c \in ex_copied :
            /\ NoKindClash(ex_dest0, c.tree)
            /\ ex_archive' \in {AddonsAtRoot(c.tree), InFolder(InZip(AddonsAtRoot(c.tree)))})
     => ex_dest' = ex_dest]_vars

\* the second call copied Foo/plugin.cfg out of a wrapped archive onto the
\* copy the first call had made, beside a file that was there before
C24_Witness ==
  /\ ex_pc = "again"
  /\ ex_ret = "True"
  /\ \E c \in ex_copied : Len(c.via) = 1 /\ Has(c.tree, <<"Foo", "plugin.cfg">>)
  /\ IsFileAt(ex_dest0, <<"Foo", "plugin.cfg">>)
  /\ At(ex_dest0, <<"Foo", "plugin.cfg">>).data = At(ex_dest, <<"Foo", "plugin.cfg">>).data
  /\ IsFileAt(ex_dest, <<"Foo", "old.txt">>)
  /\ ex_dest = ex_dest0

\* C25: after the call has returned for a valid default folder, every
\* project of the scan is in the stored list under its scanned name and path.
C25_ScannedProjectsStored ==
  (sy_pc = "done" /\ sy_folder = "valid") => sy_scanned \subseteq sy_stored

\* the same holds when no stored entry bears the name of a scanned project
\* at another path
ScannedStoredUnlessNamesake ==
  (/\ sy_pc = "done" /\ sy_folder = "valid"
   /\ \A e \in sy_stored0, f \in sy_scanned : e.name = f.name => e.path = f.path)
     => sy_scanned \subseteq sy_stored

\* the phase of a job: 0 Pending, 1 FetchingMetadata, 2 Downloading,
\* 3 Extracting, 4 Done
Phase(k) ==
  CASE inst_pc[k] \in {"none", "started"} -> 0
    [] inst_pc[k] = "fetch" -> 1
    [] inst_pc[k] \in {"download", "created", "wait"} -> 2
    [] inst_pc[k] = "extract" -> 3
    [] OTHER -> 4

\* no job ever returns to an earlier phase, and none leaves Done
PhasesInOrder ==
  [][\A k \in Jobs : Phase(k)' >= Phase(k)]_vars

\* extraction is entered only from the download phase, after the transfer
\* has ended and with the job's stop flag unset
ExtractionAfterTransferUnstopped ==
  [][\A k \in Jobs :
       (Phase(k)' = 3 /\ Phase(k) # 3) =>
          (Phase(k) = 2 /\ dl_pc[k] = "finished" /\ is_running[k])]_vars

\* C26: a job passes through its phases in the order Pending,
\* FetchingMetadata, Downloading, Extracting, Done, never back and never out
\* of Done, and it enters extraction only when the transfer has ended
\* without error and the job's stop flag is unset.
C26_PhasesLinear ==
  [][\A k \in Jobs :
       /\ Phase(k)' >= Phase(k)
       /\ (Phase(k)' = 3 /\ Phase(k) # 3) =>
             (dl_pc[k] = "finished" /\ dl_error[k] = NoneStr /\ is_running[k])]_vars

\* the result a job emits in this step is "cancelled"
EmitsCancelled(k) ==
  LET e == guiQueue'[Len(guiQueue')]
  IN  e.t = "finished" /\ e.job = k /\ ~e.ok /\ e.msg.kind = "cancelled"

\* C27: a job whose stop() was requested at any moment before it emits its
\* result emits the result cancelled: success = False with a cancellation
\* message.
C27_StoppedJobReportsCancelled ==
  [][\A k \in Jobs :
       (finished_emits'[k] > finished_emits[k] /\ ~is_running[k]) => EmitsCancelled(k)]_vars

\* the same for a stop() requested before the job's last look at its flag
\* (line 600), that is before it reached the finally block
StoppedBeforeLastCheckReportsCancelled ==
  [][\A k \in Jobs :
       (/\ finished_emits'[k] > finished_emits[k]
        /\ ~is_running[k]
        /\ stop_point[k].pc # "finally") => EmitsCancelled(k)]_vars

\* the events a step appends to the GUI thread's queue, and the progress
\* values of DownloadThread k among them
Emitted ==
  IF Len(guiQueue') > Len(guiQueue)
  THEN SubSeq(guiQueue', Len(guiQueue) + 1, Len(guiQueue')) ELSE <<>>
ProgressEmitted(k) ==
  SelectSeq(Emitted, LAMBDA e : e.t = "dlprogress" /\ e.job = k)

\* C28: a started DownloadThread emits finished exactly once: it comes to
\* emit it, never emits it twice, and emits no progress after it; when it
\* reports success (no error message) the progress value emitted last is
\* 100 and its stop flag was unset at the last check.
C28_OneTerminalEvent ==
  /\ [](\A k \in Jobs :
          /\ Len(inst_events[k]) <= 1
          /\ dl_pc[k] = "finished" => Len(inst_events[k]) = 1)
  /\ [][\A k \in Jobs :
          /\ Len(inst_events[k]) = 1 =>
                (ProgressEmitted(k) = <<>> /\ inst_events'[k] = inst_events[k])
          /\ (inst_events[k] = <<>> /\ inst_events'[k] = <<NoneStr>>) =>
                /\ dl_is_running[k]
                /\ ProgressEmitted(k) # <<>>
                /\ ProgressEmitted(k)[Len(ProgressEmitted(k))].pct = 100]_vars
  /\ (dl_pc[1] = "started") ~> (Len(inst_events[1]) = 1)

\* a transfer of two chunks has ended with success, and one of one chunk
\* was stopped and has reported the cancellation
C28_Witness ==
  /\ dl_pc[1] = "finished"
  /\ \/ /\ inst_events[1] = <<NoneStr>>
        /\ dl_bytes[1] = 2
        /\ \E i \in 1..Len(guiQueue) : guiQueue[i] = Evt("dlprogress", 1, FALSE, NoMsg, 100)
     \/ /\ inst_events[1] = <<"Download canceled by user.">>
        /\ dl_bytes[1] = 1
        /\ ~dl_is_running[1]

\* C29: once a transfer has emitted finished with an error message (network
\* error, timeout, unexpected error, cancellation), its destination file
\* does not exist; the file exists at the terminal event only on success.
C29_NoFileAfterFailedTransfer ==
  \A k \in Jobs :
     (Len(inst_events[k]) = 1 /\ job_id[k] # 0) =>
        (zip_exists[job_id[k]] => inst_events[k] = <<NoneStr>>)

\* a transfer that had written a chunk failed, or was stopped, and its file
\* is gone
C29_Witness ==
  /\ dl_pc[1] = "finished"
  /\ inst_events[1] \in {<<"Network error">>, <<"Download canceled by user.">>}
  /\ dl_bytes[1] >= 1
  /\ ~zip_exists[job_id[1]]

\* job k runs its finally block in this step
CleansUp(k) == inst_pc[k] = "finally" /\ inst_pc'[k] = "emitted"

\* C30: when a job has run its cleanup, on whatever exit path, its temp
\* directory is gone unless an archive file is still in it.
C30_EmptyTempDirRemoved ==
  [][\A k \in Jobs :
       CleansUp(k) => (temp_dir_exists' => \E a \in AssetIdSet : zip_exists'[a])]_vars

\* the same for a cleanup that still finds the job's archive file
TempDirRemovedWithArchive ==
  [][\A k \in Jobs :
       (CleansUp(k) /\ zip_exists[job_id[k]]) =>
          (temp_dir_exists' => \E a \in AssetIdSet : zip_exists'[a])]_vars

====
